---- MODULE Spec2Model ----
(***************************************************************************)
(* City traffic data generator (data_generator.py) and its Logstash        *)
(* ingestion script (ingest_data.py).                                      *)
(*                                                                         *)
(* Two specifications share the variables:                                 *)
(*   SpecTraffic  one call of generate_traffic_data(hour, city), the       *)
(*                random draws taken from sampled ranges;                  *)
(*   Spec         one process run of data_generator.main or                *)
(*                ingest_data.main, statement by statement, with the       *)
(*                KeyboardInterrupt and the I/O failures the run can meet. *)
(***************************************************************************)
EXTENDS Integers, Sequences, FiniteSets, TLC

VARIABLES
    rng,              \* how the random source answers: "lo", "hi" or "any"
    \* ---- generate_traffic_data's frame
    tpc,              \* position inside generate_traffic_data
    hour, city,       \* its arguments
    base_vehicles, base_speed, congestion_prob,
    vehicle_count, average_speed,
    draw,             \* what random.random() returned at line 148, while it is compared
    accepted,         \* history: the branch line 148 took
    congestion_level,
    remaining, vehicle_types, vidx,
    \* ---- the process
    prog,             \* the script run: "data_generator" or "ingest_data"
    args,             \* the parsed command line
    mode,             \* the operation main dispatched to
    pc,               \* the statement the process is at
    run,              \* Idle, Running, Completed, Cancelled or Failed
    raised,           \* the exception that ended the process uncaught
    i,                \* the loop index (i, record_counter, record_count)
    k,                \* the index of the loop of line 255
    base_time,        \* generate_record's argument, seconds after 2024-08-25T00:00:00
    loc,              \* the location generate_record built at line 212
    record, records,
    sink0, sink,      \* the output file's lines, before the run and now
    fh, buf,          \* the open file's mode and its unflushed lines
    clock,            \* datetime.now(), seconds after 2024-08-25T00:00:00
    printed,          \* what sample mode printed
    successful, failed,
    sent,             \* the records handed to send_to_logstash, with its answers
    generated,        \* history: the calls of generate_record that returned
    io_failed         \* history: an open or a write of the file raised OSError

tvars == <<tpc, hour, city, base_vehicles, base_speed, congestion_prob,
           vehicle_count, average_speed, draw, accepted, congestion_level,
           remaining, vehicle_types, vidx>>

svars == <<prog, args, mode, pc, run, raised, i, k, base_time, loc, record, records,
           sink0, sink, fh, buf, clock, printed, successful, failed, sent,
           generated, io_failed>>

vars == <<rng, tvars, svars>>

(***************************************************************************)
(* Bounds of the model.                                                    *)
(***************************************************************************)
\* random.randint(lo, hi) answers lo, hi and every DrawStride-th value from lo
DrawStride == 21
\* random.random() answers k / UnitSteps for k in 0 .. UnitSteps - 1
UnitSteps == 10
\* --count is drawn from -1 .. MaxCount, --interval from -1 .. MaxInterval
MaxCount == 2
MaxInterval == 1
\* the unbounded loops are followed for MaxRecords records
MaxRecords == 2

Counts == -1..MaxCount

Intervals == -1..MaxInterval

\* the wall clock when the process starts: 2024-08-25T07:59:59 or T23:59:59
StartClocks == {7 * 3600 + 59 * 60 + 59, 23 * 3600 + 59 * 60 + 59}

(***************************************************************************)
(* The random source.                                                      *)
(***************************************************************************)
Min(a, b) == IF a <= b THEN a ELSE b

Sampled(lo, hi) == {x \in lo..hi : x = lo \/ x = hi \/ (x - lo) % DrawStride = 0}

\* random.randint(lo, hi), inclusive on both ends; random.uniform(lo, hi) on a grid.
\* A process run (Spec) takes every draw at its lowest or at its highest value;
\* a call of generate_traffic_data alone (SpecTraffic) takes the sampled values.
RandInt(lo, hi) ==
    IF rng = "lo" THEN {lo}
    ELSE IF rng = "hi" THEN {hi}
    ELSE Sampled(lo, hi)

\* random.random(): a real in [0, 1), as the numerator of k / UnitSteps
RandUnit ==
    IF rng = "lo" THEN {0}
    ELSE IF rng = "hi" THEN {UnitSteps - 1}
    ELSE 0..(UnitSteps - 1)

\* random.choice(seq)
RandChoice(seq) == {seq[n] : n \in RandInt(1, Len(seq))}

(***************************************************************************)
(* CityTrafficGenerator.__init__: the catalog. Coordinates in microdegrees. *)
(***************************************************************************)
CityNames == <<"New York", "Los Angeles", "Chicago", "Miami", "Seattle", "Tehran">>

Cities == {CityNames[n] : n \in 1..Len(CityNames)}

cities(c) ==
    CASE c = "New York" ->
           [lat_range |-> <<40600000, 40900000>>, lon_range |-> <<-74100000, -73800000>>,
            streets |-> <<"Broadway", "5th Avenue", "Madison Avenue", "Park Avenue",
                          "Lexington Avenue", "Central Park West", "Riverside Drive",
                          "Amsterdam Avenue">>,
            traffic_patterns |-> "urban"]
      [] c = "Los Angeles" ->
           [lat_range |-> <<33900000, 34200000>>, lon_range |-> <<-118400000, -118100000>>,
            streets |-> <<"Sunset Boulevard", "Wilshire Boulevard", "Santa Monica Boulevard",
                          "Ventura Boulevard", "Hollywood Boulevard", "Melrose Avenue",
                          "La Cienega Boulevard">>,
            traffic_patterns |-> "suburban"]
      [] c = "Chicago" ->
           [lat_range |-> <<41700000, 42000000>>, lon_range |-> <<-87800000, -87500000>>,
            streets |-> <<"Michigan Avenue", "State Street", "Wabash Avenue",
                          "Lake Shore Drive", "Rush Street", "Oak Street", "Division Street">>,
            traffic_patterns |-> "urban"]
      [] c = "Miami" ->
           [lat_range |-> <<25600000, 25900000>>, lon_range |-> <<-80300000, -80000000>>,
            streets |-> <<"Biscayne Boulevard", "Collins Avenue", "Ocean Drive",
                          "Lincoln Road", "Alton Road", "Washington Avenue",
                          "Meridian Avenue">>,
            traffic_patterns |-> "coastal"]
      [] c = "Seattle" ->
           [lat_range |-> <<47500000, 47800000>>, lon_range |-> <<-122500000, -122200000>>,
            streets |-> <<"Pike Street", "Pine Street", "Stewart Street", "Denny Way",
                          "Capitol Hill", "Queen Anne", "Ballard Avenue">>,
            traffic_patterns |-> "urban"]
      [] c = "Tehran" ->
           [lat_range |-> <<35600000, 35800000>>, lon_range |-> <<51300000, 51500000>>,
            streets |-> <<"Valiasr Street", "Enghelab Street", "Keshavarz Boulevard",
                          "Tajrish Square", "Vanak Square", "Azadi Street",
                          "Ferdowsi Street">>,
            traffic_patterns |-> "urban"]

weather_conditions == <<"clear", "cloudy", "rainy", "foggy", "snowy">>

\* self.vehicle_types, in the dict's insertion order
VehicleOrder == <<"car", "truck", "bus", "motorcycle">>

VehicleLimits(vtype) ==
    CASE vtype = "car"        -> [min |-> 60, max |-> 85]
      [] vtype = "truck"      -> [min |-> 10, max |-> 25]
      [] vtype = "bus"        -> [min |-> 5,  max |-> 15]
      [] vtype = "motorcycle" -> [min |-> 2,  max |-> 8]

(***************************************************************************)
(* generate_traffic_data(hour, city)                                       *)
(***************************************************************************)
\* the hour buckets of lines 118-133; congestion_prob in tenths
HourBucket(h) ==
    IF h \in {7, 8, 17, 18}
    THEN [vehicles |-> <<120, 200>>, speed |-> <<15, 25>>, prob |-> 8]
    ELSE IF h \in {9, 10, 11, 14, 15, 16}
    THEN [vehicles |-> <<80, 150>>, speed |-> <<25, 35>>, prob |-> 4]
    ELSE IF h \in {12, 13}
    THEN [vehicles |-> <<100, 180>>, speed |-> <<20, 30>>, prob |-> 6]
    ELSE [vehicles |-> <<20, 80>>, speed |-> <<35, 50>>, prob |-> 1]

\* int(v * 1.2), int(v * 0.8): the float product truncated, which for every
\* 0 <= v < 300 is the integer quotient below
ScaleVehicles(pattern, v) ==
    IF pattern = "urban" THEN (v * 12) \div 10
    ELSE IF pattern = "suburban" THEN (v * 8) \div 10
    ELSE v

\* the suburban speed scaled by the vehicles' factor
MutScaleSpeed(pattern, s) ==
    IF pattern = "urban" THEN (s * 9) \div 10
    ELSE IF pattern = "suburban" THEN (s * 8) \div 10
    ELSE s

\* int(s * 0.9), int(s * 1.1), likewise
ScaleSpeed(pattern, s) ==
    IF pattern = "urban" THEN (s * 9) \div 10
    ELSE IF pattern = "suburban" THEN (s * 11) \div 10
    ELSE s

\* random.random() < congestion_prob, the draw being d / UnitSteps
DrawBelow(d, prob) == d * 10 < prob * UnitSteps

MutCongestionTier(count) ==
    IF count > 100 THEN <<"medium", "high">>
    ELSE IF count > 150 THEN <<"high", "severe">>
    ELSE <<"low", "medium">>

\* the levels random.choice picks from once the draw is accepted
CongestionTier(count) ==
    IF count > 150 THEN <<"high", "severe">>
    ELSE IF count > 100 THEN <<"medium", "high">>
    ELSE <<"low", "medium">>

\* lines 118-133
Bucket ==
    /\ tpc = "bucket"
    /\ LET b == HourBucket(hour) IN
       /\ base_vehicles' \in RandInt(b.vehicles[1], b.vehicles[2])
       /\ base_speed' \in RandInt(b.speed[1], b.speed[2])
       /\ congestion_prob' = b.prob
    /\ tpc' = "scale"
    /\ UNCHANGED <<rng, hour, city, vehicle_count, average_speed, draw, accepted,
                   congestion_level, remaining, vehicle_types, vidx, prog, args, mode,
                   pc, run, raised, i, k, base_time, loc, record, records, sink0,
                   sink, fh, buf, clock, printed, successful, failed, sent, generated,
                   io_failed>>

\* lines 136-141
Scale ==
    /\ tpc = "scale"
    /\ base_vehicles' = ScaleVehicles(cities(city).traffic_patterns, base_vehicles)
    /\ base_speed' = ScaleSpeed(cities(city).traffic_patterns, base_speed)
    /\ tpc' = "noise"
    /\ UNCHANGED <<rng, hour, city, congestion_prob, vehicle_count, average_speed,
                   draw, accepted, congestion_level, remaining, vehicle_types, vidx,
                   prog, args, mode, pc, run, raised, i, k, base_time, loc, record,
                   records, sink0, sink, fh, buf, clock, printed, successful, failed,
                   sent, generated, io_failed>>

\* lines 144-145
Noise ==
    /\ tpc = "noise"
    /\ \E nv \in RandInt(-20, 20) : vehicle_count' = base_vehicles + nv
    /\ \E ns \in RandInt(-5, 5) : average_speed' = base_speed + ns
    /\ tpc' = "draw"
    /\ UNCHANGED <<rng, hour, city, base_vehicles, base_speed, congestion_prob, draw,
                   accepted, congestion_level, remaining, vehicle_types, vidx, prog,
                   args, mode, pc, run, raised, i, k, base_time, loc, record, records,
                   sink0, sink, fh, buf, clock, printed, successful, failed, sent,
                   generated, io_failed>>

\* line 148, the call random.random()
CongestionDraw ==
    /\ tpc = "draw"
    /\ draw' \in RandUnit
    /\ tpc' = "congestion"
    /\ UNCHANGED <<rng, hour, city, base_vehicles, base_speed, congestion_prob,
                   vehicle_count, average_speed, accepted, congestion_level,
                   remaining, vehicle_types, vidx, prog, args, mode, pc, run, raised,
                   i, k, base_time, loc, record, records, sink0, sink, fh, buf, clock,
                   printed, successful, failed, sent, generated, io_failed>>

\* lines 148-160, from the comparison on
Congestion ==
    /\ tpc = "congestion"
    /\ accepted' = DrawBelow(draw, congestion_prob)
    /\ IF DrawBelow(draw, congestion_prob)
       THEN congestion_level' \in RandChoice(CongestionTier(vehicle_count))
       ELSE congestion_level' = "low"
    /\ draw' = 0
    /\ vehicle_types' = << >>
    /\ remaining' = vehicle_count
    /\ vidx' = 1
    /\ tpc' = "alloc"
    /\ UNCHANGED <<rng, hour, city, base_vehicles, base_speed, congestion_prob,
                   vehicle_count, average_speed, prog, args, mode, pc, run, raised, i,
                   k, base_time, loc, record, records, sink0, sink, fh, buf, clock,
                   printed, successful, failed, sent, generated, io_failed>>

\* one iteration of the loop of lines 162-170
AllocClass ==
    /\ tpc = "alloc"
    /\ LET vtype == VehicleOrder[vidx]
           limits == VehicleLimits(vtype)
       IN IF remaining <= 0
          THEN /\ vehicle_types' = vehicle_types @@ (vtype :> 0)
               /\ remaining' = remaining
          ELSE \E cap \in RandInt(limits.min, limits.max) :
                 \E count \in RandInt(0, Min(remaining, cap)) :
                    /\ vehicle_types' = vehicle_types @@ (vtype :> count)
                    /\ remaining' = remaining - count
    /\ vidx' = vidx + 1
    /\ tpc' = IF vidx = Len(VehicleOrder) THEN "leftover" ELSE "alloc"
    /\ UNCHANGED <<rng, hour, city, base_vehicles, base_speed, congestion_prob,
                   vehicle_count, average_speed, draw, accepted, congestion_level,
                   prog, args, mode, pc, run, raised, i, k, base_time, loc, record,
                   records, sink0, sink, fh, buf, clock, printed, successful, failed,
                   sent, generated, io_failed>>

\* the leftover given to the class the loop ended on
MutLeftover ==
    /\ tpc = "leftover"
    /\ vehicle_types' = IF remaining > 0
                        THEN [vehicle_types EXCEPT !["motorcycle"] = @ + remaining]
                        ELSE vehicle_types
    /\ tpc' = "return"
    /\ UNCHANGED <<rng, hour, city, base_vehicles, base_speed, congestion_prob,
                   vehicle_count, average_speed, draw, accepted, congestion_level,
                   remaining, vidx, prog, args, mode, pc, run, raised, i, k,
                   base_time, loc, record, records, sink0, sink, fh, buf, clock,
                   printed, successful, failed, sent, generated, io_failed>>

\* lines 173-181
Leftover ==
    /\ tpc = "leftover"
    /\ vehicle_types' = IF remaining > 0
                        THEN [vehicle_types EXCEPT !["car"] = @ + remaining]
                        ELSE vehicle_types
    /\ tpc' = "return"
    /\ UNCHANGED <<rng, hour, city, base_vehicles, base_speed, congestion_prob,
                   vehicle_count, average_speed, draw, accepted, congestion_level,
                   remaining, vidx, prog, args, mode, pc, run, raised, i, k,
                   base_time, loc, record, records, sink0, sink, fh, buf, clock,
                   printed, successful, failed, sent, generated, io_failed>>

\* the dict of lines 176-181
traffic_data ==
    [vehicle_count |-> vehicle_count, average_speed |-> average_speed,
     congestion_level |-> congestion_level, vehicle_types |-> vehicle_types]

(***************************************************************************)
(* datetime: a datetime is its offset in seconds from 2024-08-25T00:00:00.  *)
(***************************************************************************)
\* datetime.isoformat(): the calendar fields, August running into September
IsoFormat(dt) ==
    LET d == 25 + (dt \div 86400)
        r == dt % 86400
    IN [year |-> 2024,
        month |-> IF d <= 31 THEN 8 ELSE 9,
        day |-> IF d <= 31 THEN d ELSE d - 31,
        hour |-> r \div 3600,
        minute |-> (r % 3600) \div 60,
        second |-> r % 60]

\* datetime.hour
HourOf(dt) == (dt % 86400) \div 3600

\* line 310: datetime(2024, 8, 25, 12, 0, 0)
SampleTime == 12 * 3600

MutRecordTime(n) == 60 * (n + 1)

\* lines 229, 235 and 267, 273: datetime(2024, 8, 25, 0, 0, 0) + timedelta(minutes=n)
RecordTime(n) == 0 + 60 * n

(***************************************************************************)
(* generate_location, generate_weather, generate_record                    *)
(***************************************************************************)
\* lines 90-111; round(x, 6) keeps a whole number of microdegrees
generate_location(c) ==
    LET city_data == cities(c) IN
    {[lat |-> lat + jlat, lon |-> lon + jlon, street |-> street, city |-> c,
      country |-> IF c = "Tehran" THEN "Iran" ELSE "USA"] :
        lat \in RandInt(city_data.lat_range[1], city_data.lat_range[2]),
        lon \in RandInt(city_data.lon_range[1], city_data.lon_range[2]),
        jlat \in RandInt(-10000, 10000),
        jlon \in RandInt(-10000, 10000),
        street \in RandChoice(city_data.streets)}

\* lines 188-193: the temperature range of a condition, in tenths of a degree
TemperatureRange(condition) ==
    IF condition = "snowy" THEN <<-50, 50>>
    ELSE IF condition = "rainy" THEN <<50, 250>>
    ELSE <<100, 300>>

\* lines 185-200
generate_weather ==
    UNION {
      {[temperature |-> temperature, conditions |-> condition,
        humidity |-> humidity, wind_speed |-> wind_speed] :
          temperature \in RandInt(TemperatureRange(condition)[1],
                                  TemperatureRange(condition)[2]),
          humidity \in RandInt(30, 90),
          wind_speed \in RandInt(0, 25)} :
      condition \in RandChoice(weather_conditions)}

NoRecord == [none |-> TRUE]

\* the statement that follows the call of generate_record
AfterRecord(m) ==
    CASE m = "sample" -> "print"
      [] m = "batch" -> "append"
      [] m = "real_time" -> "append"
      [] m = "continuous" -> "open"
      [] m = "ingest_batch" -> "send"
      [] m = "ingest_continuous" -> "count"

\* the call of generate_record (lines 235-236, 273-274, 311; ingest 42, 71) and
\* its lines 204-212
CallRecord ==
    /\ pc = "gen"
    /\ mode \in {"continuous", "ingest_continuous"} => i < MaxRecords
    /\ LET bt == CASE mode = "sample" -> SampleTime
                   [] mode \in {"batch", "real_time", "continuous"} -> RecordTime(i)
                   [] OTHER -> clock
       IN /\ base_time' = bt
          /\ hour' = HourOf(bt)
    /\ city' \in RandChoice(CityNames)
    /\ loc' \in generate_location(city')
    /\ tpc' = "bucket"
    /\ pc' = "record"
    /\ UNCHANGED <<rng, base_vehicles, base_speed, congestion_prob, vehicle_count,
                   average_speed, draw, accepted, congestion_level, remaining,
                   vehicle_types, vidx, prog, args, mode, run, raised, i, k, record,
                   records, sink0, sink, fh, buf, clock, printed, successful, failed,
                   sent, generated, io_failed>>

\* lines 210-222, once generate_traffic_data has returned
ReturnRecord ==
    /\ pc = "record"
    /\ tpc = "return"
    /\ \E weather \in generate_weather :
         record' = [timestamp |-> [iso |-> IsoFormat(base_time), suffix |-> "Z"],
                    location |-> loc,
                    traffic_data |-> traffic_data,
                    weather |-> weather,
                    metadata |-> [source |-> "synthetic_generator",
                                  version |-> "1.0",
                                  generated_at |-> [iso |-> IsoFormat(clock),
                                                    suffix |-> ""]]]
    /\ tpc' = "idle"
    /\ generated' = generated + 1
    /\ pc' = AfterRecord(mode)
    /\ UNCHANGED <<rng, hour, city, base_vehicles, base_speed, congestion_prob,
                   vehicle_count, average_speed, draw, accepted, congestion_level,
                   remaining, vehicle_types, vidx, prog, args, mode, run, raised, i,
                   k, base_time, loc, records, sink0, sink, fh, buf, clock, printed,
                   successful, failed, sent, io_failed>>

(***************************************************************************)
(* The output file and exceptions.                                         *)
(***************************************************************************)
MutLine(r) == [json |-> r, nl |-> FALSE]

\* lines 243, 256, 277: json.dumps(record) + '\n'
Line(r) == [json |-> r, nl |-> TRUE]

\* a line cut short by a failed write
CutLine(r) == [json |-> [cut |-> r], nl |-> FALSE]

MutAppendMode == "w"

\* lines 242 and 276: the mode of open(output_file, 'a')
AppendMode == "a"

\* open(output_file, m): the file's content once opened
Opened(m, content) == IF m = "w" THEN << >> ELSE content

\* leaving a with block, normally or by an exception: the buffer reaches the file
Flushed == sink \o buf

MutCatches(m, exc) ==
    m \in {"continuous", "ingest_continuous"} /\ exc \in {"KeyboardInterrupt", "OSError"}

\* the except clauses: lines 283 and ingest 81; generate_batch and ingest_batch have none
Catches(m, exc) ==
    m \in {"continuous", "ingest_continuous"} /\ exc = "KeyboardInterrupt"

\* an exception leaves the operation: caught where there is a handler, and then main
\* returns; else the process dies of it
Raise(exc) ==
    /\ run' = IF Catches(mode, exc) THEN "Cancelled" ELSE "Failed"
    /\ raised' = IF Catches(mode, exc) THEN "none" ELSE exc
    /\ pc' = "exit"
    /\ tpc' = "idle"

(***************************************************************************)
(* main                                                                    *)
(***************************************************************************)
MutMainMode(a) ==
    IF a.continuous THEN "continuous"
    ELSE IF a.sample THEN "sample"
    ELSE IF a.real_time THEN "real_time"
    ELSE "batch"

\* data_generator.main, lines 308-324
MainMode(a) ==
    IF a.sample THEN "sample"
    ELSE IF a.continuous THEN "continuous"
    ELSE IF a.real_time THEN "real_time"
    ELSE "batch"

\* ingest_data.main, lines 99-102
IngestMode(a) == IF a.continuous THEN "ingest_continuous" ELSE "ingest_batch"

\* main up to the first statement of the operation's loop
Main ==
    /\ pc = "main"
    /\ LET m == IF prog = "data_generator" THEN MainMode(args) ELSE IngestMode(args)
       IN /\ mode' = m
          /\ run' = IF m = "sample" THEN "Idle" ELSE "Running"
          /\ pc' = IF m \in {"sample", "continuous", "ingest_continuous"}
                   THEN "gen" ELSE "loop"
    /\ UNCHANGED <<rng, tpc, hour, city, base_vehicles, base_speed, congestion_prob,
                   vehicle_count, average_speed, draw, accepted, congestion_level,
                   remaining, vehicle_types, vidx, prog, args, raised, i, k,
                   base_time, loc, record, records, sink0, sink, fh, buf, clock,
                   printed, successful, failed, sent, generated, io_failed>>

\* lines 312-314
SamplePrint ==
    /\ pc = "print"
    /\ printed' = Append(printed, record)
    /\ pc' = "exit"
    /\ UNCHANGED <<rng, tpc, hour, city, base_vehicles, base_speed, congestion_prob,
                   vehicle_count, average_speed, draw, accepted, congestion_level,
                   remaining, vehicle_types, vidx, prog, args, mode, run, raised, i,
                   k, base_time, loc, record, records, sink0, sink, fh, buf, clock,
                   successful, failed, sent, generated, io_failed>>

(***************************************************************************)
(* generate_batch, ingest_batch                                            *)
(***************************************************************************)
\* line 233 (for i in range(count)) and ingest line 41; past the loop, ingest_batch
\* returns (lines 54-56)
Loop ==
    /\ pc = "loop"
    /\ IF i < args.count
       THEN /\ pc' = "gen"
            /\ run' = run
       ELSE IF mode = "ingest_batch"
       THEN /\ pc' = "exit"
            /\ run' = "Completed"
       ELSE /\ pc' = "save"
            /\ run' = run
    /\ UNCHANGED <<rng, tpc, hour, city, base_vehicles, base_speed, congestion_prob,
                   vehicle_count, average_speed, draw, accepted, congestion_level,
                   remaining, vehicle_types, vidx, prog, args, mode, raised, i, k,
                   base_time, loc, record, records, sink0, sink, fh, buf, clock,
                   printed, successful, failed, sent, generated, io_failed>>

\* the per-record write skipped: the record is appended to records only
MutBatchAppend ==
    /\ pc = "append"
    /\ records' = Append(records, record)
    /\ IF args.real_time
       THEN /\ pc' = "sleep"
            /\ i' = i
       ELSE /\ pc' = "loop"
            /\ i' = i + 1
    /\ UNCHANGED <<rng, tpc, hour, city, base_vehicles, base_speed, congestion_prob,
                   vehicle_count, average_speed, draw, accepted, congestion_level,
                   remaining, vehicle_types, vidx, prog, args, mode, run, raised, k,
                   base_time, loc, record, sink0, sink, fh, buf, clock, printed,
                   successful, failed, sent, generated, io_failed>>

\* lines 237-241
BatchAppend ==
    /\ pc = "append"
    /\ records' = Append(records, record)
    /\ IF args.real_time
       THEN /\ pc' = IF args.output # "" THEN "open" ELSE "sleep"
            /\ i' = i
       ELSE /\ pc' = "loop"
            /\ i' = i + 1
    /\ UNCHANGED <<rng, tpc, hour, city, base_vehicles, base_speed, congestion_prob,
                   vehicle_count, average_speed, draw, accepted, congestion_level,
                   remaining, vehicle_types, vidx, prog, args, mode, run, raised, k,
                   base_time, loc, record, sink0, sink, fh, buf, clock, printed,
                   successful, failed, sent, generated, io_failed>>

\* lines 253-254 and 259: open(output_file, 'w'), or return
Save ==
    /\ pc = "save"
    /\ IF args.output # "" /\ ~args.real_time
       THEN /\ fh' = "w"
            /\ sink' = Opened("w", sink)
            /\ k' = 1
            /\ pc' = "write_all"
            /\ run' = run
       ELSE /\ pc' = "exit"
            /\ run' = "Completed"
            /\ UNCHANGED <<fh, sink, k>>
    /\ UNCHANGED <<rng, tpc, hour, city, base_vehicles, base_speed, congestion_prob,
                   vehicle_count, average_speed, draw, accepted, congestion_level,
                   remaining, vehicle_types, vidx, prog, args, mode, raised, i,
                   base_time, loc, record, records, sink0, buf, clock, printed,
                   successful, failed, sent, generated, io_failed>>

\* lines 255-256
SaveWrite ==
    /\ pc = "write_all"
    /\ IF k <= Len(records)
       THEN /\ buf' = Append(buf, Line(records[k]))
            /\ k' = k + 1
            /\ pc' = pc
       ELSE /\ pc' = "close_all"
            /\ UNCHANGED <<buf, k>>
    /\ UNCHANGED <<rng, tpc, hour, city, base_vehicles, base_speed, congestion_prob,
                   vehicle_count, average_speed, draw, accepted, congestion_level,
                   remaining, vehicle_types, vidx, prog, args, mode, run, raised, i,
                   base_time, loc, record, records, sink0, sink, fh, clock, printed,
                   successful, failed, sent, generated, io_failed>>

\* the end of the with block of line 254, then lines 257-259 and 325
SaveClose ==
    /\ pc = "close_all"
    /\ sink' = Flushed
    /\ buf' = << >>
    /\ fh' = "closed"
    /\ run' = "Completed"
    /\ pc' = "exit"
    /\ UNCHANGED <<rng, tpc, hour, city, base_vehicles, base_speed, congestion_prob,
                   vehicle_count, average_speed, draw, accepted, congestion_level,
                   remaining, vehicle_types, vidx, prog, args, mode, raised, i, k,
                   base_time, loc, record, records, sink0, clock, printed, successful,
                   failed, sent, generated, io_failed>>

(***************************************************************************)
(* The per-record write of generate_batch (real time) and                  *)
(* generate_continuous.                                                    *)
(***************************************************************************)
\* lines 242 and 276
OpenAppend ==
    /\ pc = "open"
    /\ args.output # ""
    /\ fh' = AppendMode
    /\ sink' = Opened(AppendMode, sink)
    /\ pc' = "write"
    /\ UNCHANGED <<rng, tpc, hour, city, base_vehicles, base_speed, congestion_prob,
                   vehicle_count, average_speed, draw, accepted, congestion_level,
                   remaining, vehicle_types, vidx, prog, args, mode, run, raised, i,
                   k, base_time, loc, record, records, sink0, buf, clock, printed,
                   successful, failed, sent, generated, io_failed>>

\* lines 243 and 277
Write ==
    /\ pc = "write"
    /\ buf' = Append(buf, Line(record))
    /\ pc' = "close"
    /\ UNCHANGED <<rng, tpc, hour, city, base_vehicles, base_speed, congestion_prob,
                   vehicle_count, average_speed, draw, accepted, congestion_level,
                   remaining, vehicle_types, vidx, prog, args, mode, run, raised, i,
                   k, base_time, loc, record, records, sink0, sink, fh, clock,
                   printed, successful, failed, sent, generated, io_failed>>

\* the end of the with block
Close ==
    /\ pc = "close"
    /\ sink' = Flushed
    /\ buf' = << >>
    /\ fh' = "closed"
    /\ pc' = IF mode = "continuous" THEN "count" ELSE "sleep"
    /\ UNCHANGED <<rng, tpc, hour, city, base_vehicles, base_speed, congestion_prob,
                   vehicle_count, average_speed, draw, accepted, congestion_level,
                   remaining, vehicle_types, vidx, prog, args, mode, run, raised, i,
                   k, base_time, loc, record, records, sink0, clock, printed,
                   successful, failed, sent, generated, io_failed>>

\* lines 279-280; ingest line 72
Count ==
    /\ pc = "count"
    /\ i' = i + 1
    /\ pc' = IF mode = "continuous" THEN "sleep" ELSE "send"
    /\ UNCHANGED <<rng, tpc, hour, city, base_vehicles, base_speed, congestion_prob,
                   vehicle_count, average_speed, draw, accepted, congestion_level,
                   remaining, vehicle_types, vidx, prog, args, mode, run, raised, k,
                   base_time, loc, record, records, sink0, sink, fh, buf, clock,
                   printed, successful, failed, sent, generated, io_failed>>

\* time.sleep(interval), lines 246 and 281, ingest lines 52 and 79: a negative
\* interval raises ValueError; then the loop goes on
Sleep ==
    /\ pc = "sleep"
    /\ IF args.interval < 0
       THEN /\ Raise("ValueError")
            /\ UNCHANGED <<clock, i>>
       ELSE /\ clock' = clock + args.interval
            /\ i' = IF mode \in {"real_time", "ingest_batch"} THEN i + 1 ELSE i
            /\ pc' = IF mode \in {"real_time", "ingest_batch"} THEN "loop" ELSE "gen"
            /\ UNCHANGED <<run, raised, tpc>>
    /\ UNCHANGED <<rng, hour, city, base_vehicles, base_speed, congestion_prob,
                   vehicle_count, average_speed, draw, accepted, congestion_level,
                   remaining, vehicle_types, vidx, prog, args, mode, k, base_time,
                   loc, record, records, sink0, sink, fh, buf, printed, successful,
                   failed, sent, generated, io_failed>>

(***************************************************************************)
(* send_to_logstash and its callers                                        *)
(***************************************************************************)
\* ingest lines 44-52 and 74-79: send_to_logstash answers True, or False for a
\* status other than 200 and for a RequestException
Send ==
    /\ pc = "send"
    /\ \E ok \in BOOLEAN :
         /\ sent' = Append(sent, [record |-> record, ok |-> ok])
         /\ IF mode = "ingest_batch"
            THEN /\ successful' = IF ok THEN successful + 1 ELSE successful
                 /\ failed' = IF ok THEN failed ELSE failed + 1
            ELSE UNCHANGED <<successful, failed>>
    /\ IF mode = "ingest_batch" /\ ~(i < args.count - 1)
       THEN /\ i' = i + 1
            /\ pc' = "loop"
       ELSE /\ i' = i
            /\ pc' = "sleep"
    /\ UNCHANGED <<rng, tpc, hour, city, base_vehicles, base_speed, congestion_prob,
                   vehicle_count, average_speed, draw, accepted, congestion_level,
                   remaining, vehicle_types, vidx, prog, args, mode, run, raised, k,
                   base_time, loc, record, records, sink0, sink, fh, buf, clock,
                   printed, generated, io_failed>>

(***************************************************************************)
(* What the environment does to a run.                                     *)
(***************************************************************************)
\* Ctrl-C: KeyboardInterrupt is raised at whatever statement of the operation the
\* run is at (Python raises it between two bytecodes, and out of time.sleep); an
\* open with block closes its file, flushing it, on the way out
Interrupt ==
    /\ run = "Running"
    /\ pc # "exit"
    /\ sink' = IF fh # "closed" THEN Flushed ELSE sink
    /\ buf' = << >>
    /\ fh' = "closed"
    /\ Raise("KeyboardInterrupt")
    /\ UNCHANGED <<rng, hour, city, base_vehicles, base_speed, congestion_prob,
                   vehicle_count, average_speed, draw, accepted, congestion_level,
                   remaining, vehicle_types, vidx, prog, args, mode, i, k, base_time,
                   loc, record, records, sink0, clock, printed, successful, failed,
                   sent, generated, io_failed>>

\* open() raises OSError: always for an empty path, and whenever the system refuses
OpenFails ==
    /\ \/ pc = "open"
       \/ pc = "save" /\ args.output # "" /\ ~args.real_time
    /\ io_failed' = TRUE
    /\ Raise("OSError")
    /\ UNCHANGED <<rng, hour, city, base_vehicles, base_speed, congestion_prob,
                   vehicle_count, average_speed, draw, accepted, congestion_level,
                   remaining, vehicle_types, vidx, prog, args, mode, i, k, base_time,
                   loc, record, records, sink0, sink, fh, buf, clock, printed,
                   successful, failed, sent, generated>>

\* the flush at the end of a with block raises OSError: nothing of the buffer, or a
\* line cut short, has reached the file
CloseFails ==
    /\ pc \in {"close", "close_all"}
    /\ buf # << >>
    /\ sink' \in {sink, Append(sink, CutLine(buf[1].json))}
    /\ buf' = << >>
    /\ fh' = "closed"
    /\ io_failed' = TRUE
    /\ Raise("OSError")
    /\ UNCHANGED <<rng, hour, city, base_vehicles, base_speed, congestion_prob,
                   vehicle_count, average_speed, draw, accepted, congestion_level,
                   remaining, vehicle_types, vidx, prog, args, mode, i, k, base_time,
                   loc, record, records, sink0, clock, printed, successful, failed,
                   sent, generated>>

(***************************************************************************)
(* The specifications.                                                     *)
(***************************************************************************)
TrafficIdle ==
    /\ hour = 0 /\ city = "New York"
    /\ base_vehicles = 0 /\ base_speed = 0 /\ congestion_prob = 0
    /\ vehicle_count = 0 /\ average_speed = 0
    /\ draw = 0 /\ accepted = FALSE /\ congestion_level = "low"
    /\ remaining = 0 /\ vehicle_types = << >> /\ vidx = 1

ProcessIdle ==
    /\ mode = "none" /\ run = "Idle" /\ raised = "none"
    /\ i = 0 /\ k = 0 /\ base_time = 0
    /\ loc = NoRecord /\ record = NoRecord /\ records = << >>
    /\ sink = sink0 /\ fh = "closed" /\ buf = << >>
    /\ printed = << >> /\ successful = 0 /\ failed = 0 /\ sent = << >>
    /\ generated = 0 /\ io_failed = FALSE

\* a record an earlier run left in the output file
OldLine ==
    Line([timestamp |-> [iso |-> IsoFormat(0), suffix |-> "Z"],
          location |-> [lat |-> 40600000, lon |-> -74100000, street |-> "Broadway",
                        city |-> "New York", country |-> "USA"],
          traffic_data |-> [vehicle_count |-> 0, average_speed |-> 30,
                            congestion_level |-> "low",
                            vehicle_types |-> [car |-> 0, truck |-> 0, bus |-> 0,
                                               motorcycle |-> 0]],
          weather |-> [temperature |-> 100, conditions |-> "clear", humidity |-> 30,
                       wind_speed |-> 0],
          metadata |-> [source |-> "synthetic_generator", version |-> "1.0",
                        generated_at |-> [iso |-> IsoFormat(0), suffix |-> ""]]])

\* the command lines of data_generator.py (lines 289-304) and ingest_data.py (87-97)
Init ==
    /\ rng \in {"lo", "hi"}
    /\ tpc = "idle"
    /\ TrafficIdle
    /\ prog \in {"data_generator", "ingest_data"}
    /\ IF prog = "data_generator"
       THEN /\ args \in [sample : BOOLEAN, continuous : BOOLEAN, real_time : BOOLEAN,
                         count : Counts, interval : Intervals,
                         output : {"", "traffic_data.jsonl"}]
            /\ sink0 \in {<< >>, <<OldLine>>}
       ELSE /\ args \in [sample : {FALSE}, continuous : BOOLEAN, real_time : {FALSE},
                         count : Counts, interval : Intervals, output : {""}]
            /\ sink0 = << >>
    /\ clock \in StartClocks
    /\ pc = "main"
    /\ ProcessIdle

Next ==
    \/ Main
    \/ CallRecord
    \/ Bucket
    \/ Scale
    \/ Noise
    \/ CongestionDraw
    \/ Congestion
    \/ AllocClass
    \/ Leftover
    \/ ReturnRecord
    \/ SamplePrint
    \/ Loop
    \/ BatchAppend
    \/ Save
    \/ SaveWrite
    \/ SaveClose
    \/ OpenAppend
    \/ Write
    \/ Close
    \/ Count
    \/ Sleep
    \/ Send
    \/ Interrupt
    \/ OpenFails
    \/ CloseFails

Spec == Init /\ [][Next]_vars

\* generate_traffic_data called with any hour and any city of the catalog
TInit ==
    /\ rng = "any"
    /\ tpc = "bucket"
    /\ hour \in 0..23
    /\ city \in Cities
    /\ base_vehicles = 0 /\ base_speed = 0 /\ congestion_prob = 0
    /\ vehicle_count = 0 /\ average_speed = 0
    /\ draw = 0 /\ accepted = FALSE /\ congestion_level = "low"
    /\ remaining = 0 /\ vehicle_types = << >> /\ vidx = 1
    /\ prog = "none" /\ args = NoRecord /\ sink0 = << >> /\ clock = 0
    /\ pc = "traffic"
    /\ ProcessIdle

TNext ==
    \/ Bucket
    \/ Scale
    \/ Noise
    \/ CongestionDraw
    \/ Congestion
    \/ AllocClass
    \/ Leftover

SpecTraffic == TInit /\ [][TNext]_vars

(***************************************************************************)
(* Properties.                                                             *)
(***************************************************************************)
SumOfTypes ==
    vehicle_types["car"] + vehicle_types["truck"] + vehicle_types["bus"]
      + vehicle_types["motorcycle"]

\* C1: in every observation generate_traffic_data returns, the four vehicle_types
\* counts add up to vehicle_count exactly.
C1_SumEqualsVehicleCount ==
    tpc = "return" => SumOfTypes = vehicle_count

\* C2: in every observation generate_traffic_data returns, each class's count c
\* satisfies 0 <= c <= vehicle_count.
C2_CountsWithinTotal ==
    tpc = "return" =>
        \A n \in 1..Len(VehicleOrder) :
            /\ 0 <= vehicle_types[VehicleOrder[n]]
            /\ vehicle_types[VehicleOrder[n]] <= vehicle_count

\* the congestion probability of the hour's bucket, in tenths
BucketProbability(h) ==
    IF h \in {7, 8, 17, 18} THEN 8
    ELSE IF h \in {9, 10, 11, 14, 15, 16} THEN 4
    ELSE IF h \in {12, 13} THEN 6
    ELSE 1

\* C9: when the uniform draw is not below the hour bucket's congestion probability
\* the level is "low" whatever vehicle_count is; when it is below, the level is high
\* or severe for vehicle_count > 150, medium or high for 100 < vehicle_count <= 150,
\* and low or medium otherwise.
C9_CongestionLevel ==
    [][tpc = "congestion" =>
         IF draw * 10 < BucketProbability(hour) * UnitSteps
         THEN /\ vehicle_count > 150 => congestion_level' \in {"high", "severe"}
              /\ vehicle_count > 100 /\ vehicle_count <= 150 =>
                     congestion_level' \in {"medium", "high"}
              /\ vehicle_count <= 100 => congestion_level' \in {"low", "medium"}
         ELSE congestion_level' = "low"]_vars

\* a rejected draw for more than 150 vehicles, returned as "low"
C9_Witness ==
    /\ tpc = "return"
    /\ ~accepted
    /\ vehicle_count > 150
    /\ congestion_level = "low"

\* the lines the run has added to the output file, when its earlier content is kept
Added == SubSeq(sink, Len(sink0) + 1, Len(sink))

KeepsEarlier == Len(sink0) <= Len(sink) /\ SubSeq(sink, 1, Len(sink0)) = sink0

\* the minutes after 2024-08-25T00:00 a timestamp written by isoformat() + "Z" names
MinutesOf(ts) ==
    ((ts.iso.day - 25) * 24 + ts.iso.hour) * 60 + ts.iso.minute

\* a complete line holding the record of simulated minute m
IsRecordLine(line, m) ==
    /\ line.nl
    /\ DOMAIN line.json = {"timestamp", "location", "traffic_data", "weather", "metadata"}
    /\ line.json.timestamp.suffix = "Z"
    /\ line.json.timestamp.iso.year = 2024 /\ line.json.timestamp.iso.month = 8
    /\ line.json.timestamp.iso.second = 0
    /\ MinutesOf(line.json.timestamp) = m

C4_InterruptIsCancelled ==
    mode \in {"continuous", "real_time"} => raised # "KeyboardInterrupt"

\* C5: a batch or real-time batch run for N records that completes has produced
\* exactly N records, record number n (from 0) stamped run-start + n minutes.
C5_BatchTimestamps ==
    (mode \in {"batch", "real_time"} /\ run = "Completed" /\ args.count >= 0) =>
        /\ Len(records) = args.count
        /\ generated = args.count
        /\ \A n \in 1..Len(records) : IsRecordLine([json |-> records[n], nl |-> TRUE], n - 1)

C5_Witness ==
    /\ mode \in {"batch", "real_time"}
    /\ run = "Completed"
    /\ Len(records) >= 2

IsPrefix(s, t) == Len(s) <= Len(t) /\ SubSeq(t, 1, Len(s)) = s

\* C6 as claimed: every write to the sink is append-only in all three modes: what
\* the sink held before a step it still holds, in the same order, after it.
C6_AppendOnly ==
    [][IsPrefix(sink, sink')]_vars

\* C6 as amended: every write in real-time batch and continuous mode is
\* append-only; plain batch mode empties the sink when it opens it (mode 'w') and
\* from then on only appends.
C6_AppendOnlyButBatchOpen ==
    [][\/ IsPrefix(sink, sink')
       \/ mode = "batch" /\ pc = "save" /\ sink' = << >>]_vars

\* a plain batch run over a file that held a record: the record is gone
C6_Witness ==
    /\ mode = "batch"
    /\ sink0 # << >>
    /\ run = "Completed"
    /\ Len(records) = 2
    /\ sink = <<Line(records[1]), Line(records[2])>>

\* C7: a negative record count or pacing interval is rejected before the run starts:
\* the run never enters Running, no record is generated, the sink is not opened or
\* modified.
C7_InvalidRejected ==
    (prog = "data_generator" /\ (args.count < 0 \/ args.interval < 0)) =>
        /\ run = "Idle"
        /\ generated = 0
        /\ tpc = "idle"
        /\ fh = "closed"
        /\ sink = sink0

SendFailed == \E n \in 1..Len(sent) : ~sent[n].ok

\* C8 as claimed: after a failed write, to the file or to the network sender, no
\* further record is generated or handed to the sink.
C8_AbortOnFailure ==
    [][(io_failed \/ SendFailed) =>
         (generated' = generated /\ sent' = sent /\ sink' = sink)]_vars

\* C8 as amended: a failed open or write of the file sink raises OSError out of the
\* run, which ends Failed with no further record generated or written; a failed
\* send to the network sender is reported and counted (ingest_batch) and the run
\* goes on with the next record.
C8_FileAbortsSenderContinues ==
    [][/\ io_failed' => (run' = "Failed" /\ raised' = "OSError" /\ pc' = "exit")
       /\ io_failed => (generated' = generated /\ sent' = sent /\ sink' = sink)
       /\ Len(sent') > Len(sent) => (run' = "Running" /\ raised' = "none")
       /\ mode = "ingest_batch" =>
            /\ successful' + failed' = Len(sent')
            /\ failed' = Cardinality({n \in 1..Len(sent') : ~sent'[n].ok})]_vars

\* ingest_batch sent a second record after the first send failed
C8_Witness ==
    /\ mode = "ingest_batch"
    /\ Len(sent) = 2
    /\ ~sent[1].ok
    /\ failed >= 1
    /\ generated = 2

FullyPopulated(r) ==
    /\ DOMAIN r = {"timestamp", "location", "traffic_data", "weather", "metadata"}
    /\ DOMAIN r.timestamp = {"iso", "suffix"}
    /\ DOMAIN r.location = {"lat", "lon", "street", "city", "country"}
    /\ DOMAIN r.traffic_data =
         {"vehicle_count", "average_speed", "congestion_level", "vehicle_types"}
    /\ DOMAIN r.traffic_data.vehicle_types = {"car", "truck", "bus", "motorcycle"}
    /\ DOMAIN r.weather = {"temperature", "conditions", "humidity", "wind_speed"}
    /\ DOMAIN r.metadata = {"source", "version", "generated_at"}

\* C10: with --sample, whatever the other mode flags, exactly one fully-populated
\* record is assembled and printed; nothing is persisted and no batch, real-time or
\* continuous run is started.
C10_SampleOnly ==
    (prog = "data_generator" /\ args.sample) =>
        /\ run = "Idle"
        /\ mode \in {"none", "sample"}
        /\ sink = sink0 /\ fh = "closed" /\ buf = << >>
        /\ records = << >> /\ sent = << >>
        /\ generated <= 1
        /\ pc = "exit" =>
             /\ generated = 1
             /\ printed = <<record>>
             /\ FullyPopulated(record)

C10_Witness ==
    /\ args.sample /\ args.continuous /\ args.real_time
    /\ pc = "exit"
    /\ Len(printed) = 1

\* the lines of the records generated so far, in generation order
LinesOf(rs) == [n \in 1..Len(rs) |-> Line(rs[n])]

\* C11: in real-time batch mode each record is persisted right after it is
\* generated, before the pacing wait and before the next record is generated, so
\* that from the wait to the end of the next record's generation the sink holds,
\* after what it held before the run, exactly the records generated so far; in
\* plain batch mode nothing is written until all N records are generated, and the
\* completed run has written all N in generation order.
C11_PersistOrder ==
    /\ (mode = "real_time" /\ args.output # "" /\ run \in {"Running", "Completed"}
          /\ pc \in {"sleep", "loop", "gen", "record", "save", "exit"}) =>
           /\ KeepsEarlier
           /\ Added = LinesOf(records)
           /\ pc \in {"gen", "record"} => Len(Added) = generated
           /\ pc \notin {"gen", "record"} => Len(records) = generated
    /\ (mode = "batch" /\ run = "Running" /\ generated < args.count) =>
           /\ sink = sink0
           /\ fh = "closed" /\ buf = << >>
    /\ (mode = "batch" /\ args.output # "" /\ run = "Completed") =>
           /\ Len(records) = generated
           /\ sink = LinesOf(records)

\* a real-time run at its second pacing wait, over a file that held a record
C11_Witness ==
    /\ mode = "real_time"
    /\ pc = "sleep"
    /\ sink0 # << >>
    /\ generated = 2
    /\ Len(Added) = 2

\* C12: for every hour, every catalog city and every outcome of the draws the
\* average_speed generate_traffic_data computes is strictly positive and lies in
\* 8 .. 60.
C12_SpeedRange ==
    tpc \in {"draw", "congestion", "alloc", "leftover", "return"} =>
        /\ average_speed > 0
        /\ 8 <= average_speed
        /\ average_speed <= 60

\* the smallest speed: a rush hour in an urban city, base 15, noise -5
C12_Witness ==
    /\ tpc = "return"
    /\ hour \in {7, 8, 17, 18}
    /\ cities(city).traffic_patterns = "urban"
    /\ average_speed = 8

\* the largest speed: a night hour in the suburban city, base 50, noise +5
C12_WitnessMax ==
    /\ tpc = "return"
    /\ cities(city).traffic_patterns = "suburban"
    /\ average_speed = 60

====
